---------------------------- MODULE Spec2Model ----------------------------
(***************************************************************************)
(* A model of labs/csvpython/process_csv.py: the status-scoped identifier  *)
(* collector, the field extractors, the row matcher, the exporter and the  *)
(* per-status driver (main).                                               *)
(*                                                                         *)
(* Text is modelled at character level: a Python str is a sequence of      *)
(* one-character strings, so that substring tests and the four regular     *)
(* expressions of the program are computed, not assumed.                   *)
(***************************************************************************)
EXTENDS Integers, Sequences, FiniteSets, TLC

(***************************************************************************)
(* Bounds of the model.                                                    *)
(***************************************************************************)
\* rows per dataset in the function-level specification
MaxRows == 2
\* elements per phoneNumbers array in the function-level specification
MaxElems == 2
\* status labels per run of the driver
MaxLabels == 2
\* successive calls of the collector on one dataset
MaxCalls == 2

(***************************************************************************)
(* Characters and Python values.                                           *)
(***************************************************************************)
Q == "\""
LF == "\n"
Digits == {"0", "1", "2", "3", "4", "5", "6", "7", "8", "9"}
\* what \s matches among the characters used here
Whitespace == {" ", "\t", LF}
\* Python's None where a str is expected (a cell DictReader filled with restval)
PyNone == <<"None">>

Range(f) == {f[i] : i \in DOMAIN f}
Min(S) == CHOOSE m \in S : \A n \in S : m <= n

\* all sequences over S of length at most n
SeqsUpTo(S, n) == UNION {[1..k -> S] : k \in 0..n}

\* F(e), with e evaluated once, before F uses it (Python evaluates an
\* expression when it binds a name to it)
Eager(F(_), e) == CHOOSE y \in {F(x) : x \in {e}} : TRUE

(***************************************************************************)
(* str operations.                                                         *)
(***************************************************************************)
\* s[p:].startswith(lit), p 1-based
MatchAt(s, p, lit) ==
    /\ p + Len(lit) - 1 <= Len(s)
    /\ \A k \in 1..Len(lit) : s[p + k - 1] = lit[k]

\* Python's `sub in s` for two str
Contains(s, sub) == \E p \in 1..(Len(s) + 1) : MatchAt(s, p, sub)

\* index of the first character from position `from` on that lies in set C,
\* Len(s) + 1 when there is none
NextIn(s, from, C) ==
    LET hits == {p \in from..Len(s) : s[p] \in C}
    IN  IF hits = {} THEN Len(s) + 1 ELSE Min(hits)

\* index of the first character from position `from` on that lies outside C
NextNotIn(s, from, C) ==
    LET hits == {p \in from..Len(s) : s[p] \notin C}
    IN  IF hits = {} THEN Len(s) + 1 ELSE Min(hits)

\* ', '.join(parts)
join(parts) ==
    LET from[k \in 1..Len(parts)] ==
            IF k = Len(parts) THEN parts[k]
            ELSE parts[k] \o <<",", " ">> \o from[k + 1]
    IN  IF parts = <<>> THEN <<>> ELSE from[1]

(***************************************************************************)
(* The literals of the program.                                            *)
(***************************************************************************)
\* "status":"
lit_status == <<Q, "s", "t", "a", "t", "u", "s", Q, ":", Q>>
\* "orderId":"
lit_orderId == <<Q, "o", "r", "d", "e", "r", "I", "d", Q, ":", Q>>
\* "message":"
lit_message == <<Q, "m", "e", "s", "s", "a", "g", "e", Q, ":", Q>>
\* "phoneNumbers":
lit_phoneNumbers ==
    <<Q, "p", "h", "o", "n", "e", "N", "u", "m", "b", "e", "r", "s", Q, ":">>

FAILED == <<"F", "A", "I", "L", "E", "D">>
COMPLETE == <<"C", "O", "M", "P", "L", "E", "T", "E">>

\* f'"status":"{status}"'
status_filter(status) == lit_status \o status \o <<Q>>

(***************************************************************************)
(* The regular expressions.  A search result is <<>> (no match) or         *)
(* <<group 1>>.                                                            *)
(***************************************************************************)
\* re.search(lit + r'([^"]{least,})"', s): the leftmost start where the
\* literal is followed by a maximal run of non-quote characters, at least
\* `least` long, that a quote ends
SearchQuoted(s, lit, least) ==
    LET ok(p) == /\ MatchAt(s, p, lit)
                 /\ LET a == p + Len(lit)
                        e == NextIn(s, a, {Q})
                    IN  e <= Len(s) /\ e - a >= least
        starts == {p \in 1..Len(s) : ok(p)}
    IN  IF starts = {} THEN <<>>
        ELSE LET a == Min(starts) + Len(lit)
             IN  <<SubSeq(s, a, NextIn(s, a, {Q}) - 1)>>

\* re.search(r'"orderId":"([^"]+)"', s)
re_orderId(s) == SearchQuoted(s, lit_orderId, 1)

\* re.search(r'"message":"([^"]*)"', s)
re_message(s) == SearchQuoted(s, lit_message, 0)

\* re.search(r'"phoneNumbers":\s*\[(.*?)\]', s): after the literal and any
\* whitespace a '[', then the shortest run of non-newline characters that
\* a ']' ends
re_phone_array(s) ==
    LET open(p) == NextNotIn(s, p + Len(lit_phoneNumbers), Whitespace)
        close(p) == NextIn(s, open(p) + 1, {"]", LF})
        ok(p) == /\ MatchAt(s, p, lit_phoneNumbers)
                 /\ open(p) <= Len(s) /\ s[open(p)] = "["
                 /\ close(p) <= Len(s) /\ s[close(p)] = "]"
        starts == {p \in 1..Len(s) : ok(p)}
    IN  IF starts = {} THEN <<>>
        ELSE LET p == Min(starts)
             IN  <<SubSeq(s, open(p) + 1, close(p) - 1)>>

\* [^"]*\+\d+[^"]* matches the whole of c, a str without quotes
HasPlusDigit(c) == \E k \in 1..(Len(c) - 1) : c[k] = "+" /\ c[k + 1] \in Digits

\* re.findall(r'"([^"]*\+\d+[^"]*)"', t), scan[from] being the matches from
\* position `from` on: at a quote,
\* the text up to the next quote is a match when it holds '+' and a digit,
\* and the scan goes on after that next quote; otherwise the scan goes on at
\* the next quote, which may then open a match
re_findall_phones(t) ==
    LET scan[from \in 1..(Len(t) + 2)] ==
            LET p == NextIn(t, from, {Q})
                q == NextIn(t, p + 1, {Q})
            IN  IF p > Len(t) \/ q > Len(t) THEN <<>>
                ELSE IF HasPlusDigit(SubSeq(t, p + 1, q - 1))
                     THEN <<SubSeq(t, p + 1, q - 1)>> \o scan[q + 1]
                     ELSE scan[q]
    IN  scan[1]

(***************************************************************************)
(* Field Extractor.                                                        *)
(***************************************************************************)
\* re.search on None raises TypeError, which `except Exception` swallows
extract_message_from_raw(raw_string) ==
    IF raw_string = PyNone THEN <<>>
    ELSE Eager(LAMBDA match : IF match # <<>> THEN match[1] ELSE <<>>,
               re_message(raw_string))

extract_phone_numbers_from_raw(raw_string) ==
    IF raw_string = PyNone THEN <<>>
    ELSE Eager(LAMBDA match :
                 IF match # <<>>
                 THEN Eager(LAMBDA phones :
                              IF phones # <<>> THEN join(phones) ELSE <<>>,
                            re_findall_phones(match[1]))
                 ELSE <<>>,
               re_phone_array(raw_string))

(***************************************************************************)
(* Datasets.  A file is [kind, header, lines]: kind says what open() does  *)
(* ("ok", or "missing" -> FileNotFoundError, "denied" -> PermissionError,  *)
(* "isdir" -> IsADirectoryError), header is the first CSV line and lines   *)
(* the others, each a sequence of cells.                                   *)
(***************************************************************************)
OpenError(file) ==
    CASE file.kind = "missing" -> "FileNotFoundError"
      [] file.kind = "denied" -> "PermissionError"
      [] file.kind = "isdir" -> "IsADirectoryError"
      [] OTHER -> "none"

\* position of column k in header
ColumnIndex(header, k) == Min({j \in 1..Len(header) : header[j] = k})

\* csv.DictReader: one dict per line, a column the line has no cell for is
\* None (restval)
DictReader(file) ==
    [i \in 1..Len(file.lines) |->
        [k \in Range(file.header) |->
            IF ColumnIndex(file.header, k) <= Len(file.lines[i])
            THEN file.lines[i][ColumnIndex(file.header, k)]
            ELSE PyNone]]

\* what evaluating `x in row['_raw']` raises, "none" when it evaluates
RawAccessError(row) ==
    IF "_raw" \notin DOMAIN row THEN "KeyError"
    ELSE IF row["_raw"] = PyNone THEN "TypeError"
    ELSE "none"

Raise(exc) == [tag |-> "raise", exc |-> exc]
None == [tag |-> "None"]

(***************************************************************************)
(* Identifier Collector.                                                   *)
(***************************************************************************)
\* the loop without its test of the status
RECURSIVE collect_loop_any_status(_, _, _, _)
collect_loop_any_status(rows, i, status, order_ids) ==
    IF i > Len(rows) THEN [tag |-> "set", ids |-> order_ids]
    ELSE IF RawAccessError(rows[i]) # "none" THEN Raise(RawAccessError(rows[i]))
    ELSE Eager(LAMBDA raw :
                 IF re_orderId(raw) # <<>>
                 THEN collect_loop_any_status(rows, i + 1, status,
                                              order_ids \cup {re_orderId(raw)[1]})
                 ELSE collect_loop_any_status(rows, i + 1, status, order_ids),
               rows[i]["_raw"])

\* the for loop of lines 23-29 from row i on, order_ids being the set so far
RECURSIVE collect_loop(_, _, _, _)
collect_loop(rows, i, status, order_ids) ==
    IF i > Len(rows) THEN [tag |-> "set", ids |-> order_ids]
    ELSE IF RawAccessError(rows[i]) # "none" THEN Raise(RawAccessError(rows[i]))
    ELSE Eager(LAMBDA raw :
                 IF Contains(raw, status_filter(status)) /\ re_orderId(raw) # <<>>
                 THEN collect_loop(rows, i + 1, status,
                                   order_ids \cup {re_orderId(raw)[1]})
                 ELSE collect_loop(rows, i + 1, status, order_ids),
               rows[i]["_raw"])

extract_order_ids_by_status(search_results_file, status) ==
    IF search_results_file.kind = "missing" THEN None
    ELSE IF search_results_file.kind # "ok"
         THEN Raise(OpenError(search_results_file))
    ELSE collect_loop(DictReader(search_results_file), 1, status, {})

(***************************************************************************)
(* Row Matcher.                                                            *)
(***************************************************************************)
DerivedColumns == <<"orderId", "message", "phoneNumbers", "matchType">>

\* lines 102-107: four item assignments on the row dict
Decorate(row, order_id, status) ==
    Eager(LAMBDA raw :
            [k \in DOMAIN row \cup Range(DerivedColumns) |->
                CASE k = "orderId" -> order_id
                  [] k = "message" -> extract_message_from_raw(raw)
                  [] k = "phoneNumbers" -> extract_phone_numbers_from_raw(raw)
                  [] k = "matchType" -> status
                  [] OTHER -> row[k]],
          row["_raw"])

\* the enumerations of a set: the orders `for order_id in order_ids` may take
Orders(S) == {o \in [1..Cardinality(S) -> S] : Range(o) = S}

\* the loop without its break: the row dict is appended once per identifier
\* found in it, and the last assignment to row['orderId'] shows in each
RECURSIVE match_loop_no_break(_, _, _, _, _)
match_loop_no_break(rows, i, order, status, matching_rows) ==
    IF i > Len(rows) THEN [tag |-> "rows", rows |-> matching_rows]
    ELSE IF order # <<>> /\ RawAccessError(rows[i]) # "none"
         THEN Raise(RawAccessError(rows[i]))
    ELSE Eager(LAMBDA hits :
                 match_loop_no_break(rows, i + 1, order, status,
                     matching_rows \o
                       [n \in 1..Cardinality(hits) |->
                           Decorate(rows[i],
                                    order[CHOOSE k \in hits : \A h \in hits : h <= k],
                                    status)]),
               {k \in 1..Len(order) : Contains(rows[i]["_raw"], order[k])})

\* the loop with the identifier compared to the row's own orderId field
\* instead of searched in its text
RECURSIVE match_loop_by_field(_, _, _, _, _)
match_loop_by_field(rows, i, order, status, matching_rows) ==
    IF i > Len(rows) THEN [tag |-> "rows", rows |-> matching_rows]
    ELSE IF order # <<>> /\ RawAccessError(rows[i]) # "none"
         THEN Raise(RawAccessError(rows[i]))
    ELSE Eager(LAMBDA hits :
                 IF hits = {}
                 THEN match_loop_by_field(rows, i + 1, order, status, matching_rows)
                 ELSE match_loop_by_field(rows, i + 1, order, status,
                         Append(matching_rows,
                                Decorate(rows[i], order[Min(hits)], status))),
               {k \in 1..Len(order) : re_orderId(rows[i]["_raw"]) = <<order[k]>>})

\* the for loop of lines 97-109 from row i on; `order` is the iteration order
\* of the set order_ids, the same for every row of one call
RECURSIVE match_loop(_, _, _, _, _)
match_loop(rows, i, order, status, matching_rows) ==
    IF i > Len(rows) THEN [tag |-> "rows", rows |-> matching_rows]
    ELSE IF order # <<>> /\ RawAccessError(rows[i]) # "none"
         THEN Raise(RawAccessError(rows[i]))
    ELSE Eager(LAMBDA hits :
                 IF hits = {} THEN match_loop(rows, i + 1, order, status, matching_rows)
                 ELSE match_loop(rows, i + 1, order, status,
                         Append(matching_rows,
                                Decorate(rows[i], order[Min(hits)], status))),
               {k \in 1..Len(order) : Contains(rows[i]["_raw"], order[k])})

find_matching_rows(report_file, order, status) ==
    IF report_file.kind = "missing" THEN None
    ELSE IF report_file.kind # "ok" THEN Raise(OpenError(report_file))
    ELSE LET r == match_loop(DictReader(report_file), 1, order, status, <<>>)
         IN  IF r.tag = "raise" THEN r
             ELSE [tag |-> "rows", rows |-> r.rows, fieldnames |-> report_file.header]

(***************************************************************************)
(* Exporter.  An output path holds NoFile or [kind |-> "ok", header,       *)
(* lines].                                                                 *)
(***************************************************************************)
NoFile == [kind |-> "missing", header |-> <<>>, lines |-> <<>>]

\* csv.DictWriter: one cell per fieldname, row.get(name, ''), None as ''
DictWriterLine(row, names) ==
    [j \in 1..Len(names) |->
        IF names[j] \in DOMAIN row /\ row[names[j]] # PyNone
        THEN row[names[j]] ELSE <<>>]

\* the state of output_file after the call: the file is left as it was when
\* new_fieldnames is unbound (fieldnames falsy) or open(..., 'w') raises,
\* both caught by `except Exception`
save_matching_rows(output_file, writable, matching_rows, fieldnames) ==
    IF fieldnames = <<>> \/ ~writable THEN output_file
    ELSE LET new_fieldnames == fieldnames \o DerivedColumns
         IN  [kind |-> "ok", header |-> new_fieldnames,
              lines |-> [i \in 1..Len(matching_rows) |->
                            DictWriterLine(matching_rows[i], new_fieldnames)]]

(***************************************************************************)
(* Input corpora.  Raw blobs are built as the log lines the program reads: *)
(* JSON-like objects of "key":"value" members.                             *)
(***************************************************************************)
O1 == <<"O", "1">>
O12 == <<"O", "1", "2">>
O2 == <<"O", "2">>
Identifiers == {O1, O12, O2}
Labels == {FAILED, COMPLETE}

hello == <<"h", "e", "l", "l", "o">>
timeout == <<"t", "i", "m", "e", "o", "u", "t">>
Phone1 == <<"+", "1", "5", "5">>
Phone2 == <<"+", "1", "9", "8">>

RECURSIVE JoinWith(_, _)
JoinWith(parts, sep) ==
    IF parts = <<>> THEN <<>>
    ELSE IF Len(parts) = 1 THEN parts[1]
    ELSE parts[1] \o sep \o JoinWith(Tail(parts), sep)

Quoted(v) == <<Q>> \o v \o <<Q>>
Obj(members) == <<"{">> \o JoinWith(members, <<",">>) \o <<"}">>
kv_status(v) == lit_status \o v \o <<Q>>
kv_orderId(v) == lit_orderId \o v \o <<Q>>
kv_message(v) == lit_message \o v \o <<Q>>
kv_phones(elems, sep) == lit_phoneNumbers \o <<"[">> \o JoinWith(elems, sep) \o <<"]">>

\* Source blobs, each with what a reader of the log line expects of it: the
\* status labels it carries and the orderId it yields (<<>>: none).
SourceBlobs ==
    { [raw |-> Obj(<<kv_status(FAILED), kv_orderId(O1)>>),
       st |-> {FAILED}, oid |-> <<O1>>],
      [raw |-> Obj(<<kv_orderId(O12), kv_status(FAILED)>>),
       st |-> {FAILED}, oid |-> <<O12>>],
      [raw |-> Obj(<<kv_status(COMPLETE), kv_orderId(O2)>>),
       st |-> {COMPLETE}, oid |-> <<O2>>],
      [raw |-> Obj(<<kv_status(FAILED)>>),
       st |-> {FAILED}, oid |-> <<>>],
      [raw |-> Obj(<<kv_orderId(O2)>>),
       st |-> {}, oid |-> <<O2>>],
      [raw |-> Obj(<<kv_status(FAILED), kv_orderId(O1), kv_orderId(O1)>>),
       st |-> {FAILED}, oid |-> <<O1>>],
      [raw |-> Obj(<<kv_status(FAILED), kv_orderId(<<>>)>>),
       st |-> {FAILED}, oid |-> <<>>],
      [raw |-> Obj(<<kv_status(FAILED), <<"x", ":">> \o Obj(<<kv_status(COMPLETE)>>),
                     kv_orderId(O2)>>),
       st |-> {FAILED, COMPLETE}, oid |-> <<O2>>] }

\* Report blobs, each with the identifiers that occur in its text, its message
\* and its phone numbers as a reader of the log line expects them.
ReportBlobs ==
    { [raw |-> Obj(<<kv_orderId(O1), kv_message(hello)>>),
       has |-> {O1}, message |-> hello, phones |-> <<>>],
      [raw |-> Obj(<<kv_orderId(O12), kv_message(timeout),
                     kv_phones(<<Quoted(Phone1)>>, <<",">>)>>),
       has |-> {O1, O12}, message |-> timeout, phones |-> Phone1],
      [raw |-> Obj(<<kv_orderId(O2),
                     kv_phones(<<Quoted(Phone1), Quoted(Phone2)>>, <<",">>)>>),
       has |-> {O2}, message |-> <<>>, phones |-> Phone1 \o <<",", " ">> \o Phone2],
      [raw |-> Obj(<<kv_message(O1 \o <<"/">> \o O2)>>),
       has |-> {O1, O2}, message |-> O1 \o <<"/">> \o O2, phones |-> <<>>],
      [raw |-> Obj(<<kv_message(<<"n", "o">>)>>),
       has |-> {}, message |-> <<"n", "o">>, phones |-> <<>>],
      [raw |-> <<>>,
       has |-> {}, message |-> <<>>, phones |-> <<>>] }

SourceOf(raw) == CHOOSE b \in SourceBlobs : b.raw = raw
ReportOf(raw) == CHOOSE b \in ReportBlobs : b.raw = raw

\* the cell of the first column of line i
Cell1(i) == <<"r", CHOOSE d \in Digits : d = ToString(i)>>

\* a line of two cells, or of one when the _raw cell is missing (raw = PyNone)
Line(i, raw) == IF raw = PyNone THEN <<Cell1(i)>> ELSE <<Cell1(i), raw>>

\* the dataset with this header whose lines carry these raw blobs
Dataset(header, raws) ==
    [kind |-> "ok", header |-> header,
     lines |-> [i \in 1..Len(raws) |-> Line(i, raws[i])]]

Unopenable(kind) == [kind |-> kind, header |-> <<>>, lines |-> <<>>]

(***************************************************************************)
(* State.                                                                  *)
(*   search_results_file, report_file: the two input datasets (main's two  *)
(*     paths, taken as configuration; the files at them are not written)   *)
(*   statuses: main's list of {status, output}; output paths are 1, 2, ... *)
(*   outputs: the file at each output path; old_outputs: as the run found  *)
(*     them; unwritable: the output paths open(..., 'w') fails on          *)
(*   pc, idx: main's position; order_ids, matching_rows, fieldnames: its   *)
(*     locals; error: the exception that ended the run                     *)
(*   trace: the terminal state each finished label reached, in order       *)
(*   opened: the output paths opened for writing so far                    *)
(*   u_fn, u_args, u_rets: a single function under call, its arguments and *)
(*     the results of its calls so far (function-level specification)      *)
(***************************************************************************)
VARIABLES search_results_file, report_file, statuses, outputs, old_outputs,
          unwritable, pc, idx, order_ids, matching_rows, fieldnames, error,
          trace, opened, u_fn, u_args, u_rets

inputs == <<search_results_file, report_file, statuses, old_outputs, unwritable>>
locals == <<order_ids, matching_rows, fieldnames>>
unit == <<u_fn, u_args, u_rets>>
driver == <<inputs, outputs, pc, idx, locals, error, trace, opened>>
vars == <<driver, unit>>

Unbound == [tag |-> "unbound"]
OldFile == [kind |-> "ok", header |-> <<"old">>, lines |-> <<>>]

(***************************************************************************)
(* Pipeline Driver: main, one action per step of its loop body.            *)
(***************************************************************************)
SourceRaws == {b.raw : b \in SourceBlobs}
ReportRaws == {b.raw : b \in ReportBlobs}
raw_F1 == Obj(<<kv_status(FAILED), kv_orderId(O1)>>)
raw_F12 == Obj(<<kv_orderId(O12), kv_status(FAILED)>>)
raw_C2 == Obj(<<kv_status(COMPLETE), kv_orderId(O2)>>)
raw_FC2 == Obj(<<kv_status(FAILED), <<"x", ":">> \o Obj(<<kv_status(COMPLETE)>>),
                 kv_orderId(O2)>>)
rep_1 == Obj(<<kv_orderId(O1), kv_message(hello)>>)
rep_12 == Obj(<<kv_orderId(O12), kv_message(timeout),
                kv_phones(<<Quoted(Phone1)>>, <<",">>)>>)
rep_2 == Obj(<<kv_orderId(O2),
               kv_phones(<<Quoted(Phone1), Quoted(Phone2)>>, <<",">>)>>)
rep_1or2 == Obj(<<kv_message(O1 \o <<"/">> \o O2)>>)
rep_no == Obj(<<kv_message(<<"n", "o">>)>>)

SourceHeader == <<"_time", "_raw">>
DriverSources ==
    { Dataset(SourceHeader, <<raw_F1, raw_C2>>),
      Dataset(SourceHeader, <<raw_F12>>),
      Dataset(SourceHeader, <<raw_FC2, raw_F1>>),
      Dataset(SourceHeader, <<>>),
      Dataset(SourceHeader, <<raw_F1, PyNone>>),
      Unopenable("missing"), Unopenable("denied"), Unopenable("isdir") }
DriverReports ==
    { Dataset(<<"_time", "_raw">>, <<rep_1, rep_2>>),
      Dataset(<<"orderId", "_raw">>, <<rep_12, rep_1or2>>),
      Dataset(<<"_time", "_raw">>, <<rep_1, rep_no>>),
      Dataset(<<"_time", "_raw">>, <<rep_1, PyNone>>),
      Unopenable("missing"), Unopenable("denied") }

Init ==
    /\ search_results_file \in DriverSources
    /\ report_file \in DriverReports
    /\ \E n \in 0..MaxLabels :
          /\ \E ls \in [1..n -> Labels] :
                statuses = [i \in 1..n |-> [status |-> ls[i], output |-> i]]
          /\ \E old \in {NoFile, OldFile} : old_outputs = [i \in 1..n |-> old]
          /\ unwritable \in SUBSET (1..n)
    /\ outputs = old_outputs
    /\ pc = "loop" /\ idx = 1
    /\ order_ids = Unbound /\ matching_rows = Unbound /\ fieldnames = Unbound
    /\ error = "none" /\ trace = <<>> /\ opened = {}
    /\ u_fn = "main" /\ u_args = <<>> /\ u_rets = <<>>

\* `continue`, and the end of the loop body: on to the next status_config
NextIterationBreak(i) == Len(statuses) + 1
NextIteration(i) == i + 1

\* order_ids = extract_order_ids_by_status(...): the name is bound anew
AssignOrderIdsKeep(old, new) ==
    IF old.tag = "set" /\ new.tag = "set"
    THEN [tag |-> "set", ids |-> old.ids \cup new.ids] ELSE new
AssignOrderIds(old, new) == new

\* if len(matching_rows) > 0
ShouldSaveAlways(rows) == TRUE
ShouldSave(rows) == Len(rows) > 0

Terminal(state) ==
    /\ trace' = Append(trace, [status |-> statuses[idx].status, state |-> state])
    /\ idx' = NextIteration(idx)
    /\ pc' = "loop"

Crash(exc) ==
    /\ pc' = "crashed" /\ error' = exc
    /\ UNCHANGED <<idx, trace>>

\* lines 154-174: Step 1, collect the identifiers of this status
Step1 ==
    /\ pc = "loop" /\ idx <= Len(statuses)
    /\ \E r \in {extract_order_ids_by_status(search_results_file, statuses[idx].status)} :
           IF r.tag = "raise"
           THEN Crash(r.exc) /\ UNCHANGED order_ids
           ELSE /\ order_ids' = AssignOrderIds(order_ids, r)
                /\ error' = error
                /\ IF order_ids'.tag = "None" THEN Terminal("SKIP_STATUS")
                   ELSE IF Cardinality(order_ids'.ids) > 0
                        THEN pc' = "step2" /\ UNCHANGED <<idx, trace>>
                        ELSE Terminal("SKIP_STATUS")
    /\ UNCHANGED <<inputs, outputs, matching_rows, fieldnames, opened, unit>>

\* lines 176-181: Step 2, match the rows of the report
Step2 ==
    /\ pc = "step2"
    /\ \E order \in Orders(order_ids.ids) :
          \E r \in {find_matching_rows(report_file, order, statuses[idx].status)} :
              IF r.tag = "raise"
              THEN Crash(r.exc) /\ UNCHANGED <<matching_rows, fieldnames>>
              ELSE /\ error' = error
                   /\ IF r.tag = "None"
                      THEN /\ matching_rows' = None /\ fieldnames' = None
                           /\ Terminal("SKIP_STATUS")
                      ELSE /\ matching_rows' = r.rows /\ fieldnames' = r.fieldnames
                           /\ pc' = "step3" /\ UNCHANGED <<idx, trace>>
    /\ UNCHANGED <<inputs, outputs, order_ids, opened, unit>>

\* lines 183-190: Step 3, export the rows, if any
Step3 ==
    /\ pc = "step3"
    /\ LET out == statuses[idx].output
       IN  IF ShouldSave(matching_rows)
           THEN /\ outputs' = [outputs EXCEPT ![out] =
                       save_matching_rows(outputs[out], out \notin unwritable,
                                          matching_rows, fieldnames)]
                /\ opened' = IF fieldnames # <<>> THEN opened \cup {out} ELSE opened
                /\ Terminal("DONE")
           ELSE /\ UNCHANGED <<outputs, opened>>
                /\ Terminal("SKIP_STATUS")
    /\ UNCHANGED <<inputs, locals, error, unit>>

\* line 192: the loop is over
Finish ==
    /\ pc = "loop" /\ idx > Len(statuses)
    /\ pc' = "done"
    /\ UNCHANGED <<inputs, outputs, idx, locals, error, trace, opened, unit>>

Next == Step1 \/ Step2 \/ Step3 \/ Finish

Spec == Init /\ [][Next]_vars

\* main is one sequential thread: a step that can be taken is taken
SpecFair == Spec /\ WF_vars(Next)

(***************************************************************************)
(* Function-level specification: one function of the module is called on   *)
(* arguments drawn from the corpora; the collector may be called again on  *)
(* the same arguments.                                                     *)
(***************************************************************************)
CollectFiles ==
    {Dataset(SourceHeader, raws) : raws \in SeqsUpTo(SourceRaws \cup {PyNone}, MaxRows)}
    \cup {Dataset(<<"_time">>, <<PyNone>>)}
    \cup {Unopenable(k) : k \in {"missing", "denied", "isdir"}}

MatchFiles ==
    {Dataset(h, raws) : h \in {<<"_time", "_raw">>, <<"orderId", "_raw">>},
                        raws \in SeqsUpTo(ReportRaws \cup {PyNone}, MaxRows)}
    \cup {Dataset(<<"_time">>, <<PyNone>>)}
    \cup {Unopenable(k) : k \in {"missing", "denied", "isdir"}}

\* array elements: three quoted phone-like tokens, a quoted word, a bare number
PhoneItems ==
    {Quoted(Phone1), Quoted(Phone2), Quoted(<<"a", "b">>), Quoted(<<"x", "+", "3">>),
     <<"+", "4">>}
PhoneSeps == {<<",">>, <<",", " ">>, <<",", LF>>}
PhoneArrays ==
    {<<"[">> \o JoinWith(elems, sep) \o <<"]">> :
        elems \in SeqsUpTo(PhoneItems, MaxElems), sep \in PhoneSeps}
PhoneBlobs ==
    {Obj(<<kv_message(hello)>>)}
    \cup {Obj(<<kv_message(hello), lit_phoneNumbers \o arr>>) : arr \in PhoneArrays}
    \cup {Obj(<<lit_phoneNumbers \o <<" ">> \o arr>>) : arr \in PhoneArrays}
    \cup {Obj(<<lit_phoneNumbers \o <<LF>> \o arr>>) : arr \in PhoneArrays}
    \cup {Obj(<<lit_phoneNumbers \o Quoted(<<"x">>), lit_phoneNumbers \o arr>>) :
             arr \in PhoneArrays}
    \cup {lit_phoneNumbers \o SubSeq(arr, 1, Len(arr) - 1) : arr \in PhoneArrays}

UnitInit ==
    /\ search_results_file = NoFile /\ report_file = NoFile
    /\ statuses = <<>> /\ outputs = <<>> /\ old_outputs = <<>> /\ unwritable = {}
    /\ pc = "unit" /\ idx = 1
    /\ order_ids = Unbound /\ matching_rows = Unbound /\ fieldnames = Unbound
    /\ error = "none" /\ trace = <<>> /\ opened = {}
    /\ u_rets = <<>>
    /\ \E fn \in {"extract_order_ids_by_status", "find_matching_rows",
                   "extract_phone_numbers_from_raw"} :
          /\ u_fn = fn
          /\ CASE fn = "extract_order_ids_by_status" ->
                    u_args \in [file : CollectFiles, status : Labels]
                [] fn = "find_matching_rows" ->
                    u_args \in [file : MatchFiles, order_ids : SUBSET Identifiers,
                                status : Labels]
                [] OTHER ->
                    u_args \in [raw_string : PhoneBlobs]

CallCollect ==
    /\ u_fn = "extract_order_ids_by_status" /\ Len(u_rets) < MaxCalls
    /\ u_rets' = Append(u_rets,
                        extract_order_ids_by_status(u_args.file, u_args.status))
    /\ UNCHANGED <<driver, u_fn, u_args>>

CallMatch ==
    /\ u_fn = "find_matching_rows" /\ u_rets = <<>>
    /\ \E order \in Orders(u_args.order_ids) :
          u_rets' = <<find_matching_rows(u_args.file, order, u_args.status)>>
    /\ UNCHANGED <<driver, u_fn, u_args>>

CallPhone ==
    /\ u_fn = "extract_phone_numbers_from_raw" /\ u_rets = <<>>
    /\ u_rets' = <<extract_phone_numbers_from_raw(u_args.raw_string)>>
    /\ UNCHANGED <<driver, u_fn, u_args>>

UnitNext == CallCollect \/ CallMatch \/ CallPhone

SpecUnits == UnitInit /\ [][UnitNext]_vars

(***************************************************************************)
(* What a reader of the input datasets expects, from the annotations of    *)
(* the corpora alone.                                                      *)
(***************************************************************************)
\* every line has its _raw cell
WellFormed(file) ==
    /\ file.kind = "ok"
    /\ "_raw" \in Range(file.header)
    /\ \A i \in 1..Len(file.lines) : Len(file.lines[i]) = Len(file.header)

RawOf(file, i) == file.lines[i][ColumnIndex(file.header, "_raw")]

\* the identifiers of the records of a well-formed source carrying the status
ExpectedIds(file, status) ==
    {SourceOf(RawOf(file, i)).oid[1] :
        i \in {n \in 1..Len(file.lines) :
                  /\ status \in SourceOf(RawOf(file, n)).st
                  /\ SourceOf(RawOf(file, n)).oid # <<>>}}

\* the lines of a well-formed report in whose text an identifier of ids occurs
ExpectedMatches(file, ids) ==
    {i \in 1..Len(file.lines) : ReportOf(RawOf(file, i)).has \cap ids # {}}

\* the elements of a set of numbers in increasing order
RECURSIVE Sorted(_)
Sorted(S) == IF S = {} THEN <<>> ELSE <<Min(S)>> \o Sorted(S \ {Min(S)})

\* collection for the label at position i yields a non-empty identifier set
IdsFound(i) ==
    /\ WellFormed(search_results_file)
    /\ ExpectedIds(search_results_file, statuses[i].status) # {}

\* and matching then yields at least one row
RowsFound(i) ==
    /\ IdsFound(i)
    /\ WellFormed(report_file)
    /\ ExpectedMatches(report_file,
                       ExpectedIds(search_results_file, statuses[i].status)) # {}

Positions == 1..Len(statuses)
Finished == pc \in {"done", "crashed"}

(***************************************************************************)
(* C1.  Per-label isolation: when every label's stages end in one of the   *)
(* outcomes source Absent, empty identifier set, target Absent, zero       *)
(* matched rows, write failure or successful export, every configured      *)
(* label is processed exactly once, in configured order, reaches           *)
(* SKIP_STATUS or DONE, and the run then ends.                             *)
(***************************************************************************)
ListedOutcomes ==
    \A i \in Positions :
        LET c == extract_order_ids_by_status(search_results_file, statuses[i].status)
        IN  /\ c.tag # "raise"
            /\ (c.tag = "set" /\ c.ids # {}) =>
                   \A order \in Orders(c.ids) :
                       find_matching_rows(report_file, order,
                                          statuses[i].status).tag # "raise"

RunEnded ==
    /\ pc = "done"
    /\ Len(trace) = Len(statuses)
    /\ \A i \in Positions :
          /\ trace[i].status = statuses[i].status
          /\ trace[i].state \in {"SKIP_STATUS", "DONE"}

C1_PerLabelIsolation == ListedOutcomes => <>[]RunEnded

\* a skipped or write-failed first label, then a second label exported
C1_Witness ==
    /\ RunEnded /\ Len(trace) = 2
    /\ trace[1].state = "SKIP_STATUS" \/ 1 \in unwritable \cap opened
    /\ trace[2].state = "DONE" /\ outputs[2] # old_outputs[2]

(***************************************************************************)
(* C2.  Export gating: an output path is opened for writing only for a     *)
(* label whose collection found identifiers and whose matching found rows; *)
(* a path not opened holds the file it held before the run; a processed    *)
(* label without identifiers or without rows ended in SKIP_STATUS.         *)
(***************************************************************************)
C2_ExportGating ==
    \A i \in Positions :
        /\ i \in opened => IdsFound(i) /\ RowsFound(i)
        /\ i \notin opened => outputs[i] = old_outputs[i]
        /\ (i <= Len(trace) /\ ~RowsFound(i)) =>
               trace[i].state = "SKIP_STATUS" /\ i \notin opened

\* one label skipped for zero matched rows, its existing output file kept,
\* and another label exported
C2_Witness ==
    /\ pc = "done"
    /\ \E i, j \in Positions :
          /\ i \in opened /\ outputs[i] # old_outputs[i]
          /\ IdsFound(j) /\ ~RowsFound(j) /\ WellFormed(report_file)
          /\ trace[j].state = "SKIP_STATUS" /\ outputs[j] = OldFile

(***************************************************************************)
(* C5.  Absent on unopenable input: an input that cannot be opened, for    *)
(* whatever cause, makes the collector and the matcher return Absent; no   *)
(* error propagates, and the driver skips the label and goes on.           *)
(***************************************************************************)
C5_AbsentOnUnopenable ==
    /\ error \notin {"PermissionError", "IsADirectoryError", "FileNotFoundError"}
    /\ (search_results_file.kind # "ok" /\ Finished) =>
           /\ RunEnded
           /\ \A i \in Positions : trace[i].state = "SKIP_STATUS"
           /\ Positions # {} => order_ids = None
    /\ (report_file.kind # "ok" /\ Finished /\ ListedOutcomes) =>
           /\ RunEnded
           /\ \A i \in Positions : trace[i].state = "SKIP_STATUS"

(***************************************************************************)
(* C6.  Schema preservation: a written output has the report's columns in  *)
(* their order followed by orderId, message, phoneNumbers, matchType, and  *)
(* in every written row each original column holds the value it has in the *)
(* report's record the row comes from.                                     *)
(***************************************************************************)
C6_SchemaPreserved ==
    \A i \in Positions :
        (i \in opened /\ outputs[i] # old_outputs[i]) =>
            LET from == Sorted(ExpectedMatches(report_file,
                            ExpectedIds(search_results_file, statuses[i].status)))
            IN  /\ outputs[i].header = report_file.header \o DerivedColumns
                /\ Len(outputs[i].lines) = Len(from)
                /\ \A l \in 1..Len(from) : \A j \in 1..Len(report_file.header) :
                       outputs[i].lines[l][j] = report_file.lines[from[l]][j]

(***************************************************************************)
(* C7.  No hard crash for a single bad input: whatever the raw blob of a   *)
(* record, a missing _raw cell included, no error escapes collection or    *)
(* matching to abort the run.                                              *)
(***************************************************************************)
C7_NoCrashOnBadRecord ==
    (search_results_file.kind = "ok" /\ report_file.kind \in {"ok", "missing"}) =>
        pc # "crashed"

(***************************************************************************)
(* C10.  Label independence: what the run leaves at a label's output path  *)
(* is what a run of that label alone can leave there, whatever labels were *)
(* processed before it; every row written for a label has that label as    *)
(* its matchType.                                                          *)
(***************************************************************************)
\* the files a run of `status` alone can leave at an output path holding old
AloneOutputs(status, old, writable) ==
    LET c == extract_order_ids_by_status(search_results_file, status)
    IN  IF c.tag # "set" \/ c.ids = {} THEN {old}
        ELSE {LET m == find_matching_rows(report_file, order, status)
              IN  IF m.tag # "rows" \/ m.rows = <<>> THEN old
                  ELSE save_matching_rows(old, writable, m.rows, m.fieldnames) :
              order \in Orders(c.ids)}

C10_LabelIndependence ==
    \A i \in Positions :
        /\ Finished =>
              outputs[i] \in AloneOutputs(statuses[i].status, old_outputs[i],
                                          i \notin unwritable)
        /\ outputs[i] # old_outputs[i] =>
              \A l \in 1..Len(outputs[i].lines) :
                  outputs[i].lines[l][Len(outputs[i].header)] = statuses[i].status

\* two different labels exported one after the other, to different effect
C10_Witness ==
    /\ pc = "done" /\ Len(trace) = 2
    /\ statuses[1].status # statuses[2].status
    /\ outputs[1] # old_outputs[1] /\ outputs[2] # old_outputs[2]
    /\ outputs[1].lines # outputs[2].lines
    /\ Len(outputs[2].lines) > 0

(***************************************************************************)
(* C3.  At-most-one attribution: a call of find_matching_rows that returns *)
(* rows returns no more rows than the report has records, no record twice, *)
(* and each row with one orderId among the identifiers passed in and the   *)
(* status passed in as its matchType.                                      *)
(***************************************************************************)
MatchReturned ==
    /\ u_fn = "find_matching_rows" /\ u_rets # <<>>
    /\ u_rets[1].tag = "rows"

C3_AtMostOneAttribution ==
    MatchReturned =>
        LET rows == u_rets[1].rows
        IN  /\ Len(rows) <= Len(u_args.file.lines)
            /\ u_args.file.header[1] = "_time" =>
                   \A l, m \in 1..Len(rows) : l # m => rows[l]["_time"] # rows[m]["_time"]
            /\ \A l \in 1..Len(rows) :
                   /\ rows[l]["orderId"] \in u_args.order_ids
                   /\ rows[l]["matchType"] = u_args.status

\* a record whose text holds two of the identifiers passed in, returned once
C3_Witness ==
    /\ MatchReturned
    /\ u_args.file = Dataset(<<"_time", "_raw">>, <<rep_12>>)
    /\ {O1, O12} \subseteq u_args.order_ids
    /\ Len(u_rets[1].rows) = 1 /\ u_rets[1].rows[1]["orderId"] = O12

(***************************************************************************)
(* C4.  Identifier collection: on a source whose records all have their    *)
(* _raw cell, every call of extract_order_ids_by_status returns exactly    *)
(* the set of the orderIds of the records carrying the status, so that a    *)
(* second call returns the same set as the first.                          *)
(***************************************************************************)
C4_CollectExact ==
    (u_fn = "extract_order_ids_by_status" /\ WellFormed(u_args.file)) =>
        \A k \in 1..Len(u_rets) :
            u_rets[k] = [tag |-> "set",
                         ids |-> ExpectedIds(u_args.file, u_args.status)]

\* two calls on a source in which one identifier occurs in two records, twice
\* in one of them, beside a record with the status and no identifier
C4_Witness ==
    /\ u_fn = "extract_order_ids_by_status" /\ Len(u_rets) = 2
    /\ u_args.status = FAILED
    /\ u_args.file = Dataset(SourceHeader,
                             <<raw_F1, Obj(<<kv_status(FAILED), kv_orderId(O1),
                                             kv_orderId(O1)>>)>>)
    /\ u_rets[2].ids = {O1}

(***************************************************************************)
(* C8.  Matcher result content: on a report whose records all have their   *)
(* _raw cell, find_matching_rows returns, in report order, exactly the     *)
(* records in whose text an identifier passed in occurs, each with such an *)
(* identifier as orderId, its message, its phone numbers and the status    *)
(* passed in as matchType.                                                 *)
(***************************************************************************)
C8_MatchExact ==
    (u_fn = "find_matching_rows" /\ u_rets # <<>> /\ WellFormed(u_args.file)) =>
        LET from == Sorted(ExpectedMatches(u_args.file, u_args.order_ids))
            rows == u_rets[1].rows
        IN  /\ u_rets[1].tag = "rows"
            /\ u_rets[1].fieldnames = u_args.file.header
            /\ Len(rows) = Len(from)
            /\ \A l \in 1..Len(from) :
                   LET b == ReportOf(RawOf(u_args.file, from[l]))
                   IN  /\ rows[l]["_raw"] = b.raw
                       /\ u_args.file.header[1] = "_time" =>
                              rows[l]["_time"] = Cell1(from[l])
                       /\ rows[l]["orderId"] \in b.has \cap u_args.order_ids
                       /\ rows[l]["message"] = b.message
                       /\ rows[l]["phoneNumbers"] = b.phones
                       /\ rows[l]["matchType"] = u_args.status

\* a record without identifier is left out and the one after it, which holds
\* the identifier in its message only, is returned with its fields
C8_Witness ==
    /\ u_fn = "find_matching_rows" /\ u_rets # <<>>
    /\ u_args.file = Dataset(<<"_time", "_raw">>, <<rep_no, rep_1or2>>)
    /\ u_args.order_ids = {O2} /\ u_args.status = COMPLETE
    /\ Len(u_rets[1].rows) = 1
    /\ u_rets[1].rows[1]["_time"] = Cell1(2)
    /\ u_rets[1].rows[1]["orderId"] = O2
    /\ u_rets[1].rows[1]["phoneNumbers"] = <<>>

(***************************************************************************)
(* C9.  List-field extraction: the result of extract_phone_numbers_from_raw *)
(* is the quoted elements, holding a '+' and a digit after it, of the      *)
(* first bracketed sequence following "phoneNumbers", in their order,      *)
(* joined with ", "; the empty string when there is no such sequence or    *)
(* element.                                                                *)
(***************************************************************************)
\* the text between '[' and the first ']' after it, for the first
\* "phoneNumbers": that whitespace and such a bracketed text follow
BracketedAfterPhoneNumbers(s) ==
    LET open(p) == NextNotIn(s, p + Len(lit_phoneNumbers), Whitespace)
        close(p) == NextIn(s, open(p) + 1, {"]"})
        ok(p) == /\ MatchAt(s, p, lit_phoneNumbers)
                 /\ open(p) <= Len(s) /\ s[open(p)] = "["
                 /\ close(p) <= Len(s)
        starts == {p \in 1..Len(s) : ok(p)}
    IN  IF starts = {} THEN <<>>
        ELSE LET p == Min(starts)
             IN  <<SubSeq(s, open(p) + 1, close(p) - 1)>>

\* the texts between the 1st and 2nd quote, the 3rd and 4th, ...
QuotedElements(t) ==
    LET quotes == Sorted({p \in 1..Len(t) : t[p] = Q})
    IN  [n \in 1..(Len(quotes) \div 2) |->
            SubSeq(t, quotes[2 * n - 1] + 1, quotes[2 * n] - 1)]

ExpectedPhones(raw) ==
    LET arr == BracketedAfterPhoneNumbers(raw)
    IN  IF arr = <<>> THEN <<>>
        ELSE JoinWith(SelectSeq(QuotedElements(arr[1]), HasPlusDigit), <<",", " ">>)

C9_PhoneList ==
    (u_fn = "extract_phone_numbers_from_raw" /\ u_rets # <<>>) =>
        u_rets[1] = ExpectedPhones(u_args.raw_string)

=============================================================================
